---- MODULE Spec2Model ----
(***************************************************************************)
(* A model of gocache (src/gocache.go): the hash index `entries`, the      *)
(* intrusive doubly-linked list (head, tail and the previous/next links of *)
(* the entries), lazy expiration, eviction and the save/restore snapshot.  *)
(*                                                                         *)
(* Entries live in a heap `mem` addressed by pointers.  A pointer is a     *)
(* pair <<key, generation>>; Nil is the null pointer.  Entries that no     *)
(* pointer reaches any more are reclaimed, as by Go's garbage collector.  *)
(***************************************************************************)
EXTENDS Integers, Sequences, FiniteSets, TLC

\* ---------------------------------------------------------------- bounds
Keys == {"A", "B", "C"}
Values == {"x", "y"}
\* Entry objects that may be alive at once for one key.
MaxGen == 2
\* The clock starts at StartTime and is advanced at most MaxTicks times.
StartTime == 10
MaxTicks == 1
\* Longest key list handed to GetAll / DeleteAll.
MaxKeysLen == 2
\* Calls of ReadFromFile in one run.
MaxRestores == 1
\* Instants after the first, where every call has an instant of its own.
MaxInstants == 3
\* Calls of Get made beside the other callers in one run.
MaxGets == 1

\* ------------------------------------------------------ program constants
NoMaxSize == 0
NoExpiration == -1
FirstInFirstOut == "FirstInFirstOut"
LeastRecentlyUsed == "LeastRecentlyUsed"
ErrKeyDoesNotExist == "key does not exist"
ErrKeyHasNoExpiration == "key has no expiration"
NoError == "nil"
\* The nil interface value, and the mark of a key GetAll was not asked for.
NilValue == "nil"
NotAsked == "-"

\* The policies and time-to-live arguments explored.
Policies == {FirstInFirstOut, LeastRecentlyUsed}
TTLs == {NoExpiration, 0, 1, -2}

\* ------------------------------------------------------------------ heap
Nil == <<>>
Addrs == Keys \X (1..MaxGen)
NullEntry ==
    [Key |-> "", Value |-> "", Expiration |-> 0, RelevantTimestamp |-> 0,
     previous |-> Nil, next |-> Nil]
\* The index maps every key to its entry, absent keys to Nil.
EmptyIndex == [k \in Keys |-> Nil]
KeyListsOver(K) == UNION {[1..n -> K] : n \in 0..MaxKeysLen}

VARIABLES
    MaxSize,         \* Cache.MaxSize
    EvictionPolicy,  \* Cache.EvictionPolicy
    entries,         \* Cache.entries: key -> pointer
    head,            \* Cache.head
    tail,            \* Cache.tail
    mem,             \* the Entry objects: pointer -> fields
    now,             \* time.Now()
    panicked,        \* a nil dereference has stopped the program
    hung,            \* a call is in a loop that never ends
    restores,        \* the calls of ReadFromFile so far
    getter,          \* the Get in progress beside the other callers
    gets,            \* the Gets begun beside the other callers so far
    recency,         \* the indexed keys by their last use, oldest first
    mutex,           \* Cache.mutex: "free", "rlocked" (shared) or "locked"
    saver,           \* the SaveToFile in progress beside the other callers
    last             \* the last call: its name, its key, its outcome

vars == <<MaxSize, EvictionPolicy, entries, head, tail, mem, now, panicked, hung, restores,
          getter, gets, recency, mutex, saver, last>>

\* The store as one value, for the operators that transform it.
St == [entries |-> entries, head |-> head, tail |-> tail, mem |-> mem,
       panic |-> FALSE, hang |-> FALSE]

\* The keys of the map, its values, delete(map, k), and len(map).
Indexed(S) == {k \in Keys : S.entries[k] # Nil}
Range(f) == {f[x] : x \in DOMAIN f} \ {Nil}
Without(f, k) == IF k \in DOMAIN f THEN [f EXCEPT ![k] = Nil] ELSE f
Len0(S) == Cardinality(Indexed(S))

\* The pointers reached from the set R along previous and next links.
Linked(m, R) == (R \cup {m[a].previous : a \in R} \cup {m[a].next : a \in R}) \ {Nil}
RECURSIVE Closure(_, _)
Closure(m, R) ==
    CHOOSE C \in {IF N = R THEN R ELSE Closure(m, N) : N \in {Linked(m, R)}} : TRUE

\* The entries some pointer still reaches, from the given extra roots too.
Reachable(S, roots) == Closure(S.mem, (Range(S.entries) \cup {S.head, S.tail} \cup roots) \ {Nil})

\* Garbage collection: an unreachable Entry object is gone.
Collect(S, roots) ==
    LET R == Reachable(S, roots)
    IN  [S EXCEPT !.mem = [a \in Addrs |-> IF a \in R THEN S.mem[a] ELSE NullEntry]]

\* &Entry{...}: the address of a new object for key k, Nil when the heap is full.
FreeGens(S, k, roots) == {g \in 1..MaxGen : <<k, g>> \notin Reachable(S, roots)}
NewAddr(S, k, roots) ==
    IF FreeGens(S, k, roots) = {} THEN Nil
    ELSE <<k, CHOOSE g \in FreeGens(S, k, roots) : \A h \in FreeGens(S, k, roots) : g <= h>>

\* ----------------------------------------------------------------- Entry
\* Entry.Expired(): the expiration is set and has passed.
Expired(e, t) == e.Expiration # NoExpiration /\ t >= e.Expiration

\* Entry.Accessed(): the entry was read.
Accessed(S, a, t) == [S EXCEPT !.mem[a].RelevantTimestamp = t]

\* ttl applied at time t (SetWithTTL, Expire).
\* A slip: the duration is stored where the instant is meant.
ExpirationFor_Relative(ttl, t) == ttl

ExpirationFor(ttl, t) == IF ttl # NoExpiration THEN t + ttl ELSE NoExpiration

\* ------------------------------------------------------ list maintenance
\* A slip: the tail is not repaired when the entry unlinked is the tail.
removeExistingEntryReferences_KeepsTail(S, e) ==
    LET h1 == IF S.head = e THEN S.mem[e].previous ELSE S.head
        p  == S.mem[e].previous
        m1 == IF p # Nil THEN [S.mem EXCEPT ![p].next = S.mem[e].next] ELSE S.mem
        n  == m1[e].next
        m2 == IF n # Nil THEN [m1 EXCEPT ![n].previous = m1[e].previous] ELSE m1
    IN  [S EXCEPT !.head = h1, !.mem = m2]

removeExistingEntryReferences(S, e) ==
    LET t1 == IF S.tail = e THEN S.mem[S.tail].next ELSE S.tail
        h1 == IF S.head = e THEN S.mem[e].previous ELSE S.head
        p  == S.mem[e].previous
        m1 == IF p # Nil THEN [S.mem EXCEPT ![p].next = S.mem[e].next] ELSE S.mem
        n  == m1[e].next
        m2 == IF n # Nil THEN [m1 EXCEPT ![n].previous = m1[e].previous] ELSE m1
    IN  [S EXCEPT !.tail = t1, !.head = h1, !.mem = m2]

\* A slip: the entry is made the head without being unlinked first.
moveExistingEntryToHead_KeepLinks(S, e) ==
    IF e = S.head THEN S
    ELSE IF S.head = Nil THEN [S EXCEPT !.panic = TRUE]
    ELSE [S EXCEPT !.mem = [S.mem EXCEPT ![e].previous = S.head,
                                         ![e].next = Nil,
                                         ![S.head].next = e],
                   !.head = e]

moveExistingEntryToHead(S, e) ==
    LET S1 == IF ~(e = S.head /\ e = S.tail)
              THEN removeExistingEntryReferences(S, e) ELSE S
    IN  IF e # S1.head
        THEN LET m1 == [S1.mem EXCEPT ![e].previous = S1.head, ![e].next = Nil]
             IN  IF S1.head = Nil
                 THEN [S1 EXCEPT !.mem = m1, !.panic = TRUE]
                 ELSE [S1 EXCEPT !.mem = [m1 EXCEPT ![S1.head].next = e], !.head = e]
        ELSE S1

\* A slip: an entry with an expiration is evicted before the tail.
evict_PrefersExpiring(S) ==
    LET X == {k \in Indexed(S) : S.mem[S.entries[k]].Expiration # NoExpiration
                                  /\ S.entries[k] # S.tail}
        x == CHOOSE k \in X : TRUE
    IN  IF X = {} THEN S
        ELSE [removeExistingEntryReferences(S, S.entries[x])
                EXCEPT !.entries = Without(S.entries, x)]

evict(S) ==
    IF S.tail = Nil \/ Len0(S) = 0 THEN S
    ELSE LET e1 == Without(S.entries, S.mem[S.tail].Key)
             t1 == S.mem[S.tail].next
         IN  IF t1 = Nil
             THEN [S EXCEPT !.entries = e1, !.tail = t1, !.panic = TRUE]
             ELSE [S EXCEPT !.entries = e1, !.tail = t1, !.mem[t1].previous = Nil]

\* ------------------------------------------------------------ operations
\* Each operator gives the store after the call (S) and what the call
\* returns (ret); `ok` is FALSE when the model's heap bound stops the call.

\* A slip: a negative time-to-live is refused for an indexed key as well.
SetWithTTLOp_RejectsNegative(S, key, value, ttl, t, max, roots) ==
    LET ok == S.entries[key] # Nil
        a  == NewAddr(S, key, roots)
        created ==
            LET m1 == [S.mem EXCEPT ![a] =
                         [Key |-> key, Value |-> value, Expiration |-> 0,
                          RelevantTimestamp |-> t, previous |-> S.head, next |-> Nil]]
                m2 == IF S.head = Nil THEN m1 ELSE [m1 EXCEPT ![S.head].next = a]
            IN  [S EXCEPT !.mem = m2,
                          !.tail = IF S.head = Nil THEN a ELSE S.tail,
                          !.head = a,
                          !.entries = [S.entries EXCEPT ![key] = a]]
        updated ==
            moveExistingEntryToHead([S EXCEPT !.mem[S.entries[key]].Value = value],
                                    S.entries[key])
        entry == IF ok THEN S.entries[key] ELSE a
        S1 == IF ok THEN updated ELSE created
        S2 == IF S1.panic THEN S1
              ELSE [S1 EXCEPT !.mem[entry].Expiration = ExpirationFor(ttl, t)]
        S3 == IF S2.panic \/ max = NoMaxSize THEN S2
              ELSE IF Len0(S2) > max THEN evict(S2) ELSE S2
    IN  IF ttl # NoExpiration /\ ttl < 0
        THEN [ok |-> TRUE, S |-> S,
              ret |-> [evictions |-> 0, created |-> FALSE, skipped |-> TRUE]]
        ELSE IF ~ok /\ a = Nil
        THEN [ok |-> FALSE, S |-> S,
              ret |-> [evictions |-> 0, created |-> FALSE, skipped |-> TRUE]]
        ELSE [ok |-> TRUE, S |-> S3,
              ret |-> [evictions |-> IF S2.panic \/ max = NoMaxSize \/ Len0(S2) <= max
                                     THEN 0 ELSE 1,
                       created |-> ~ok, skipped |-> FALSE]]

SetWithTTLOp(S, key, value, ttl, t, max, roots) ==
    LET ok == S.entries[key] # Nil
        a  == NewAddr(S, key, roots)
        created ==
            LET m1 == [S.mem EXCEPT ![a] =
                         [Key |-> key, Value |-> value, Expiration |-> 0,
                          RelevantTimestamp |-> t, previous |-> S.head, next |-> Nil]]
                m2 == IF S.head = Nil THEN m1 ELSE [m1 EXCEPT ![S.head].next = a]
            IN  [S EXCEPT !.mem = m2,
                          !.tail = IF S.head = Nil THEN a ELSE S.tail,
                          !.head = a,
                          !.entries = [S.entries EXCEPT ![key] = a]]
        updated ==
            moveExistingEntryToHead([S EXCEPT !.mem[S.entries[key]].Value = value],
                                    S.entries[key])
        entry == IF ok THEN S.entries[key] ELSE a
        S1 == IF ok THEN updated ELSE created
        S2 == IF S1.panic THEN S1
              ELSE [S1 EXCEPT !.mem[entry].Expiration = ExpirationFor(ttl, t)]
        S3 == IF S2.panic \/ max = NoMaxSize THEN S2
              ELSE IF Len0(S2) > max THEN evict(S2) ELSE S2
    IN  IF ~ok /\ ttl # NoExpiration /\ ttl < 0
        THEN [ok |-> TRUE, S |-> S,
              ret |-> [evictions |-> 0, created |-> FALSE, skipped |-> TRUE]]
        ELSE IF ~ok /\ a = Nil
        THEN [ok |-> FALSE, S |-> S,
              ret |-> [evictions |-> 0, created |-> FALSE, skipped |-> TRUE]]
        ELSE [ok |-> TRUE, S |-> S3,
              ret |-> [evictions |-> IF S2.panic \/ max = NoMaxSize \/ Len0(S2) <= max
                                     THEN 0 ELSE 1,
                       created |-> ~ok, skipped |-> FALSE]]

\* A slip: Get moves the entry to the head whatever the policy.
GetCheckOp_AnyPolicy(S, e, t, policy) ==
    IF e = Nil \/ Expired(S.mem[e], t)
    THEN [S |-> S, found |-> FALSE, relink |-> Nil]
    ELSE [S |-> Accessed(S, e, t), found |-> TRUE,
          relink |-> IF S.head = e THEN Nil ELSE e]

\* A slip: Get does not test the expiration.
GetCheckOp_NoExpiry(S, e, t, policy) ==
    IF e = Nil
    THEN [S |-> S, found |-> FALSE, relink |-> Nil]
    ELSE IF policy = LeastRecentlyUsed
    THEN [S |-> Accessed(S, e, t), found |-> TRUE,
          relink |-> IF S.head = e THEN Nil ELSE e]
    ELSE [S |-> S, found |-> TRUE, relink |-> Nil]

\* Get after its lookup gave the pointer e (Nil: no such key): the expiry
\* test, Accessed() and the test for the head.  relink is the entry that
\* Get goes on to move to the head under the exclusive lock, if any.
GetCheckOp(S, e, t, policy) ==
    IF e = Nil \/ Expired(S.mem[e], t)
    THEN [S |-> S, found |-> FALSE, relink |-> Nil]
    ELSE IF policy = LeastRecentlyUsed
    THEN [S |-> Accessed(S, e, t), found |-> TRUE,
          relink |-> IF S.head = e THEN Nil ELSE e]
    ELSE [S |-> S, found |-> TRUE, relink |-> Nil]

\* Get's exclusive section.
GetRelinkOp(S, e) == moveExistingEntryToHead(S, e)

\* What Get returns for the entry e it looked up.
GetResult(S, e, found) ==
    [found |-> found, value |-> IF found THEN S.mem[e].Value ELSE NilValue]

GetOp(S, key, t, policy) ==
    LET e  == S.entries[key]
        L  == GetCheckOp(S, e, t, policy)
        S1 == IF L.relink = Nil THEN L.S ELSE GetRelinkOp(L.S, L.relink)
    IN  [S |-> S1, ret |-> GetResult(S1, e, L.found)]

\* GetAll: Get for every key in turn.  `hits` lists the keys found, in order.
RECURSIVE GetAllOp(_, _, _, _, _)
GetAllOp(S, keys, t, policy, acc) ==
    IF keys = <<>> \/ S.panic THEN [S |-> S, ret |-> acc.ret, hits |-> acc.hits]
    ELSE \* one turn of the loop, its result bound before the next
         CHOOSE R \in
           {GetAllOp(G.S, Tail(keys), t, policy,
                     [ret  |-> [acc.ret EXCEPT ![Head(keys)] = G.ret.value],
                      hits |-> IF G.ret.found THEN Append(acc.hits, Head(keys))
                               ELSE acc.hits]) :
              G \in {GetOp(S, Head(keys), t, policy)}} : TRUE

NoneAsked == [ret |-> [k \in Keys |-> NotAsked], hits |-> <<>>]

DeleteOp(S, key) ==
    LET ok == S.entries[key] # Nil
    IN  IF ok
        THEN [S |-> [removeExistingEntryReferences(S, S.entries[key])
                       EXCEPT !.entries = Without(S.entries, key)],
              ret |-> TRUE]
        ELSE [S |-> S, ret |-> FALSE]

RECURSIVE DeleteAllOp(_, _, _)
DeleteAllOp(S, keys, n) ==
    IF keys = <<>> THEN [S |-> S, ret |-> n]
    ELSE CHOOSE R \in
           {DeleteAllOp(D.S, Tail(keys), IF D.ret THEN n + 1 ELSE n) :
              D \in {DeleteOp(S, Head(keys))}} : TRUE

Count(S) == Len0(S)

\* A slip: Clear forgets the tail.
ClearOp_KeepsTail(S) == [S EXCEPT !.entries = EmptyIndex, !.head = Nil]

ClearOp(S) == [S EXCEPT !.entries = EmptyIndex, !.head = Nil, !.tail = Nil]

TTLOp(S, key, t) ==
    LET ok == S.entries[key] # Nil
        e  == S.mem[S.entries[key]]
        timeUntilExpiration == e.Expiration - t
    IN  IF ~ok THEN [d |-> 0, err |-> ErrKeyDoesNotExist]
        ELSE IF e.Expiration = NoExpiration THEN [d |-> 0, err |-> ErrKeyHasNoExpiration]
        ELSE IF timeUntilExpiration < 0 THEN [d |-> 0, err |-> ErrKeyDoesNotExist]
        ELSE [d |-> timeUntilExpiration, err |-> NoError]

\* A slip: Expire counts as a use and moves the entry to the head.
ExpireOp_AsAccess(S, key, ttl, t) ==
    LET ok == S.entries[key] # Nil
        e  == S.entries[key]
    IN  IF ~ok \/ Expired(S.mem[e], t)
        THEN [S |-> S, ret |-> FALSE]
        ELSE [S |-> moveExistingEntryToHead(
                      [S EXCEPT !.mem[e].Expiration = ExpirationFor(ttl, t)], e),
              ret |-> TRUE]

\* A slip: Expire does not test whether the entry is already expired.
ExpireOp_NoCheck(S, key, ttl, t) ==
    LET ok == S.entries[key] # Nil
        e  == S.entries[key]
    IN  IF ~ok
        THEN [S |-> S, ret |-> FALSE]
        ELSE [S |-> [S EXCEPT !.mem[e].Expiration = ExpirationFor(ttl, t)], ret |-> TRUE]

ExpireOp(S, key, ttl, t) ==
    LET ok == S.entries[key] # Nil
        e  == S.entries[key]
    IN  IF ~ok \/ Expired(S.mem[e], t)
        THEN [S |-> S, ret |-> FALSE]
        ELSE [S |-> [S EXCEPT !.mem[e].Expiration = ExpirationFor(ttl, t)], ret |-> TRUE]

\* ----------------------------------------------------------- persistence
\* A slip: the expiration is a field the encoder does not see.
SnapshotOf_DropsExpiration(S) ==
    [k \in Indexed(S) |->
        [Key |-> S.mem[S.entries[k]].Key,
         Value |-> S.mem[S.entries[k]].Value,
         Expiration |-> 0,
         RelevantTimestamp |-> S.mem[S.entries[k]].RelevantTimestamp]]

\* What SaveToFile encodes: the exported fields of every indexed entry.
SnapshotOf(S) ==
    [k \in Indexed(S) |->
        [Key |-> S.mem[S.entries[k]].Key,
         Value |-> S.mem[S.entries[k]].Value,
         Expiration |-> S.mem[S.entries[k]].Expiration,
         RelevantTimestamp |-> S.mem[S.entries[k]].RelevantTimestamp]]

\* decoder.Decode(&cache.entries): every key of the snapshot is bound to a
\* new Entry with null links; the other keys of the index stay as they are.
DecodeRoots(S, snap, roots) ==
    {S.entries[k] : k \in Indexed(S) \ DOMAIN snap} \cup roots
DecodeAddr(S, snap, roots, k) ==
    NewAddr([S EXCEPT !.entries = EmptyIndex, !.head = Nil, !.tail = Nil],
            k, DecodeRoots(S, snap, roots))
RECURSIVE DecodeKeys(_, _, _, _, _)
DecodeKeys(S0, S, snap, roots, K) ==
    IF K = {} THEN S
    ELSE LET k == CHOOSE x \in K : TRUE
         IN  CHOOSE R \in
               {DecodeKeys(S0,
                   [S EXCEPT !.entries[k] = a,
                             !.mem[a] = [Key |-> snap[k].Key, Value |-> snap[k].Value,
                                         Expiration |-> snap[k].Expiration,
                                         RelevantTimestamp |-> snap[k].RelevantTimestamp,
                                         previous |-> Nil, next |-> Nil]],
                   snap, roots, K \ {k}) : a \in {DecodeAddr(S0, snap, roots, k)}} : TRUE
DecodeOp(S, snap, roots) == DecodeKeys(S, S, snap, roots, DOMAIN snap)

\* sort.Slice by RelevantTimestamp: the orders it may produce (it is not
\* stable and the map is ranged over in any order, so ties fall either way).
IsPermutation(seq, T) ==
    /\ Len(seq) = Cardinality(T)
    /\ {seq[i] : i \in 1..Len(seq)} = T
SortedOrders(S) ==
    LET T == Range(S.entries)
    IN  {seq \in [1..Cardinality(T) -> T] :
            /\ IsPermutation(seq, T)
            /\ \A i, j \in 1..Len(seq) :
                 i < j => ~(S.mem[seq[j]].RelevantTimestamp < S.mem[seq[i]].RelevantTimestamp)}

\* The relinking loop of ReadFromFile.
RECURSIVE RelinkOp(_, _, _)
RelinkOp(S, seq, previous) ==
    IF seq = <<>> THEN S
    ELSE LET current == Head(seq)
             S1 == IF previous = Nil
                   THEN [S EXCEPT !.tail = current, !.head = current]
                   ELSE [S EXCEPT !.mem[previous].next = current,
                                  !.mem[current].previous = previous,
                                  !.head = current]
         IN  RelinkOp(S1, Tail(seq), current)

\* The eviction loop of ReadFromFile.  Every turn that does not shrink the
\* index moves the tail one link on and nulls a previous link, so a loop
\* that has run MaxLoop turns is in a cycle of the list and never ends.
MaxLoop == 2 * Cardinality(Addrs) * (Cardinality(Keys) + 1)
\* A slip: one eviction where the loop is needed.
EvictLoop_Once(S, max, n) ==
    IF S.panic \/ Len0(S) <= max THEN [S |-> S, n |-> n]
    ELSE [S |-> evict(S), n |-> n + 1]

RECURSIVE EvictLoop(_, _, _)
EvictLoop(S, max, n) ==
    IF S.panic \/ Len0(S) <= max THEN [S |-> S, n |-> n]
    ELSE IF n >= MaxLoop THEN [S |-> [S EXCEPT !.hang = TRUE], n |-> n]
    ELSE CHOOSE R \in {EvictLoop(T, max, n + 1) : T \in {evict(S)}} : TRUE

ReadFromFileOp(S, snap, seq, max) ==
    LET S1 == RelinkOp(S, seq, Nil)
        E  == EvictLoop(S1, max, 0)
    IN  IF max = NoMaxSize
        THEN [S |-> S1, ret |-> [evictions |-> 0, err |-> NoError]]
        ELSE [S |-> E.S, ret |-> [evictions |-> E.n, err |-> NoError]]

\* The snapshot files ReadFromFile is given: written by SaveToFile of this
\* or of another cache, before the run or at its first instant.
SavedEntry(k) ==
    [Key |-> k, Value |-> "x", Expiration |-> NoExpiration,
     RelevantTimestamp |-> IF k = "A" THEN StartTime ELSE StartTime - 1]
SnapshotsOver(K) == {[k \in D |-> SavedEntry(k)] : D \in SUBSET K}
\* Files whose entries all have timestamps of their own.
DatedSnapshots ==
    {[k \in D |-> [Key |-> k, Value |-> "x", Expiration |-> NoExpiration,
                   RelevantTimestamp |-> ts[k]]] :
        D \in SUBSET Keys,
        ts \in {f \in [Keys -> 1..Cardinality(Keys)] :
                   \A j, k \in Keys : j # k => f[j] # f[k]}}

\* --------------------------------------------------------------- actions
conf == <<MaxSize, EvictionPolicy>>
store == <<entries, head, tail, mem, panicked, hung>>

\* The pointers held outside the store: the entry a Get has looked up.
Roots == {getter.entry}

Install(S) ==
    LET C == Collect(S, Roots)
    IN  /\ entries' = C.entries
        /\ head' = C.head
        /\ tail' = C.tail
        /\ mem' = C.mem
        /\ panicked' = C.panic
        /\ hung' = C.hang

Called(op, key, ret) == last' = [op |-> op, key |-> key, ret |-> ret]

\* The keys in the order of their last use, oldest first: `touched` is the
\* order after this call's uses, of which the keys still indexed are kept.
Touch(seq, k) == SelectSeq(seq, LAMBDA x : x # k) \o <<k>>
RECURSIVE TouchAll(_, _)
TouchAll(seq, ks) == IF ks = <<>> THEN seq ELSE TouchAll(Touch(seq, Head(ks)), Tail(ks))
Used(touched) == recency' = SelectSeq(touched, LAMBDA x : entries'[x] # Nil)

\* The program runs: no call has crashed it or is stuck holding the lock.
Running == ~panicked /\ ~hung

\* cache.mutex.Lock() and cache.mutex.RLock() return.
Lockable == Running /\ mutex = "free"
RLockable == Running /\ mutex # "locked"

\* SaveToFile by a caller running beside the others: the encoder walks the
\* map under the shared lock and writes one entry after the other. `seen`
\* keeps what the store held at each instant since the save began.
EmptyFile == [k \in {} |-> NullEntry]
NotSaving == [pc |-> "idle", file |-> EmptyFile, todo |-> {}, seen |-> {}]
Observed(S) ==
    IF saver.pc = "saving" THEN [saver EXCEPT !.seen = @ \cup {SnapshotOf(S)}] ELSE saver

Idle == [pc |-> "idle", key |-> "", entry |-> Nil]

\* A slip: the size is taken as given.
WithMaxSize_AsGiven(maxSize) == maxSize

\* WithMaxSize: a negative size is no maximum size.
WithMaxSize(maxSize) == IF maxSize < 0 THEN NoMaxSize ELSE maxSize

\* NewCache().WithMaxSize(m).WithEvictionPolicy(p), m drawn from sizes.
InitWith(sizes) ==
    /\ MaxSize \in sizes
    /\ EvictionPolicy \in Policies
    /\ entries = EmptyIndex
    /\ head = Nil
    /\ tail = Nil
    /\ mem = [a \in Addrs |-> NullEntry]
    /\ now = StartTime
    /\ panicked = FALSE
    /\ hung = FALSE
    /\ restores = 0
    /\ getter = Idle
    /\ gets = 0
    /\ recency = <<>>
    /\ mutex = "free"
    /\ saver = NotSaving
    /\ last = [op |-> "NewCache", key |-> "", ret |-> TRUE]

Tick ==
    /\ Running
    /\ now < StartTime + MaxTicks
    /\ now' = now + 1
    /\ Called("tick", "", TRUE)
    /\ UNCHANGED <<conf, mutex, saver, store, restores, getter, gets, recency>>

Set(key, value) ==
    /\ Lockable
    /\ \E R \in {SetWithTTLOp(St, key, value, NoExpiration, now, MaxSize, Roots)} :
         /\ R.ok
         /\ Install(R.S)
         /\ Used(Touch(recency, key))
         /\ Called("SetWithTTL", key, R.ret)
    /\ UNCHANGED <<conf, mutex, saver, now, restores, getter, gets>>

SetWithTTL(key, value, ttl) ==
    /\ Lockable
    /\ \E R \in {SetWithTTLOp(St, key, value, ttl, now, MaxSize, Roots)} :
         /\ R.ok
         /\ Install(R.S)
         /\ Used(IF R.ret.skipped THEN recency ELSE Touch(recency, key))
         /\ Called("SetWithTTL", key, R.ret)
    /\ UNCHANGED <<conf, mutex, saver, now, restores, getter, gets>>

Get(key) ==
    /\ Lockable
    /\ \E R \in {GetOp(St, key, now, EvictionPolicy)} :
         /\ Install(R.S)
         /\ Used(IF R.ret.found /\ EvictionPolicy = LeastRecentlyUsed
                 THEN Touch(recency, key) ELSE recency)
         /\ Called("Get", key, R.ret)
    /\ UNCHANGED <<conf, mutex, saver, now, restores, getter, gets>>

GetAll(keys) ==
    /\ Lockable
    /\ \E R \in {GetAllOp(St, keys, now, EvictionPolicy, NoneAsked)} :
         /\ Install(R.S)
         /\ Used(IF EvictionPolicy = LeastRecentlyUsed
                 THEN TouchAll(recency, R.hits) ELSE recency)
         /\ Called("GetAll", "", R.ret)
    /\ UNCHANGED <<conf, mutex, saver, now, restores, getter, gets>>

Delete(key) ==
    /\ Lockable
    /\ \E R \in {DeleteOp(St, key)} :
         /\ Install(R.S)
         /\ Used(recency)
         /\ Called("Delete", key, R.ret)
    /\ UNCHANGED <<conf, mutex, saver, now, restores, getter, gets>>

DeleteAll(keys) ==
    /\ Lockable
    /\ \E R \in {DeleteAllOp(St, keys, 0)} :
         /\ Install(R.S)
         /\ Used(recency)
         /\ Called("DeleteAll", "", R.ret)
    /\ UNCHANGED <<conf, mutex, saver, now, restores, getter, gets>>

Clear ==
    /\ Lockable
    /\ Install(ClearOp(St))
    /\ Used(recency)
    /\ Called("Clear", "", TRUE)
    /\ UNCHANGED <<conf, mutex, saver, now, restores, getter, gets>>

TTL(key) ==
    /\ RLockable
    /\ Called("TTL", key, TTLOp(St, key, now))
    /\ UNCHANGED <<conf, mutex, saver, store, now, restores, getter, gets, recency>>

Expire(key, ttl) ==
    /\ RLockable
    /\ \E R \in {ExpireOp(St, key, ttl, now)} :
         /\ Install(R.S)
         /\ saver' = Observed(R.S)
         /\ Called("Expire", key, R.ret)
    /\ UNCHANGED <<conf, mutex, now, restores, getter, gets, recency>>

ReadFromFile(snap) ==
    /\ Lockable
    /\ restores < MaxRestores
    /\ restores' = restores + 1
    /\ \A k \in DOMAIN snap : DecodeAddr(St, snap, Roots, k) # Nil
    /\ \E D \in {DecodeOp(St, snap, Roots)} :
         \E seq \in SortedOrders(D) :
           \E R \in {ReadFromFileOp(D, snap, seq, MaxSize)} :
             /\ Install(R.S)
             /\ Used([i \in 1..Len(seq) |-> D.mem[seq[i]].Key])
             /\ Called("ReadFromFile", "", R.ret)
    /\ UNCHANGED <<conf, mutex, saver, now, getter, gets>>

\* ReadFromFile of a path that cannot be opened: it returns before the lock.
ErrOpen == "open"
ReadFromFileMissing ==
    /\ Running
    /\ restores < MaxRestores
    /\ restores' = restores + 1
    /\ Called("ReadFromFile", "", [evictions |-> 0, err |-> ErrOpen])
    /\ UNCHANGED <<conf, mutex, saver, store, now, getter, gets, recency>>

\* ReadFromFile of a file the decoder gives up on. Decode is handed the
\* address of the live map and sets it element by element: `part` holds the
\* entries it decoded before the failure. The call then returns at once,
\* the lock taken and not released.
ErrDecode == "decode"
ReadFromFileCorrupt(part) ==
    /\ Lockable
    /\ restores < MaxRestores
    /\ restores' = restores + 1
    /\ \A k \in DOMAIN part : DecodeAddr(St, part, Roots, k) # Nil
    /\ Install(DecodeOp(St, part, Roots))
    /\ Used(recency)
    /\ mutex' = "locked"
    /\ Called("ReadFromFile", "", [evictions |-> 0, err |-> ErrDecode])
    /\ UNCHANGED <<conf, saver, now, getter, gets>>

\* SaveToFile in its steps: RLock; Encode, entry by entry in the order the
\* map is walked; RUnlock.
SaveBegin ==
    /\ RLockable
    /\ saver.pc = "idle"
    /\ mutex' = "rlocked"
    /\ saver' = [pc |-> "saving", file |-> EmptyFile, todo |-> Indexed(St),
                 seen |-> {SnapshotOf(St)}]
    /\ Called("SaveBegin", "", TRUE)
    /\ UNCHANGED <<conf, store, now, restores, getter, gets, recency>>

SaveEncode(key) ==
    /\ Running
    /\ saver.pc = "saving"
    /\ key \in saver.todo
    /\ saver' = [saver EXCEPT
                   !.todo = @ \ {key},
                   !.file = [k \in DOMAIN @ \cup {key} |->
                                IF k = key THEN SnapshotOf(St)[key] ELSE @[k]]]
    /\ Called("SaveEncode", key, TRUE)
    /\ UNCHANGED <<conf, mutex, store, now, restores, getter, gets, recency>>

SaveEnd ==
    /\ Running
    /\ saver.pc = "saving"
    /\ saver.todo = {}
    /\ mutex' = "free"
    /\ saver' = [saver EXCEPT !.pc = "done"]
    /\ Called("SaveToFile", "", NoError)
    /\ UNCHANGED <<conf, store, now, restores, getter, gets, recency>>

\* The clock advanced up to MaxInstants times.
Advance ==
    /\ Running
    /\ now < StartTime + MaxInstants
    /\ now' = now + 1
    /\ Called("tick", "", TRUE)
    /\ UNCHANGED <<conf, mutex, saver, store, restores, getter, gets, recency>>

\* The call A made as the first call of its instant.
AtNewInstant(A) == last.op \in {"NewCache", "tick"} /\ A

\* SaveToFile followed by ReadFromFile of that file into a new cache with
\* the same MaxSize and EvictionPolicy, which the run goes on with.
Fresh ==
    [entries |-> EmptyIndex, head |-> Nil, tail |-> Nil,
     mem |-> [a \in Addrs |-> NullEntry], panic |-> FALSE, hang |-> FALSE]
Reloads(S, max) ==
    LET snap == SnapshotOf(S)
        D    == DecodeOp(Fresh, snap, {})
    IN  {[R |-> ReadFromFileOp(D, snap, seq, max),
          order |-> [i \in 1..Len(seq) |-> D.mem[seq[i]].Key]] : seq \in SortedOrders(D)}

SaveAndRestore ==
    /\ Lockable
    /\ getter.pc = "idle"
    /\ restores < MaxRestores
    /\ restores' = restores + 1
    /\ \E L \in Reloads(St, MaxSize) :
         /\ Install(L.R.S)
         /\ Used(L.order)
         /\ Called("ReadFromFile", "", L.R.ret)
    /\ UNCHANGED <<conf, mutex, saver, now, getter, gets>>

\* Get by a caller running beside the others, in its three steps: the
\* lookup under the shared lock; the unlocked tests; the exclusive section.
GetLookup(key) ==
    /\ RLockable
    /\ getter.pc = "idle"
    /\ gets < MaxGets
    /\ gets' = gets + 1
    /\ getter' = [pc |-> "looked", key |-> key, entry |-> entries[key]]
    /\ Called("GetLookup", key, entries[key] # Nil)
    /\ UNCHANGED <<conf, mutex, saver, store, now, restores, recency>>

GetCheck ==
    /\ Running
    /\ getter.pc = "looked"
    /\ \E L \in {GetCheckOp(St, getter.entry, now, EvictionPolicy)} :
         /\ getter' = IF L.relink = Nil THEN Idle ELSE [getter EXCEPT !.pc = "relink"]
         /\ mem' = Collect(L.S, {getter'.entry}).mem
         /\ saver' = Observed(L.S)
         /\ Called(IF L.relink = Nil THEN "Get" ELSE "GetCheck", getter.key,
                  GetResult(L.S, getter.entry, L.found))
    /\ UNCHANGED <<conf, mutex, entries, head, tail, panicked, hung, now, restores, gets, recency>>

GetRelink ==
    /\ Lockable
    /\ getter.pc = "relink"
    /\ getter' = Idle
    /\ \E C \in {Collect(GetRelinkOp(St, getter.entry), {})} :
           /\ entries' = C.entries
           /\ head' = C.head
           /\ tail' = C.tail
           /\ mem' = C.mem
           /\ panicked' = C.panic
           /\ hung' = C.hang
    /\ Called("Get", getter.key,
              GetResult(GetRelinkOp(St, getter.entry), getter.entry, TRUE))
    /\ UNCHANGED <<conf, mutex, saver, now, restores, gets, recency>>

\* ---------------------------------------------------------- specifications
\* The calls of the store, with their arguments drawn from the given sets:
\* those that take the exclusive lock at once (and Expire), and the reads.
Writes(K, V, T, L) ==
    \/ \E k \in K, v \in V : Set(k, v)
    \/ \E k \in K, v \in V, ttl \in T : SetWithTTL(k, v, ttl)
    \/ \E k \in K : Delete(k)
    \/ \E ks \in L : DeleteAll(ks)
    \/ Clear
    \/ \E k \in K, ttl \in T : Expire(k, ttl)

Reads(K, L) ==
    \/ \E k \in K : Get(k)
    \/ \E ks \in L : GetAll(ks)

\* Spec: one caller, every operation, the restore included, on two keys.
TwoKeys == {"A", "B"}
Next ==
    \/ Tick
    \/ Writes(TwoKeys, {"x"}, {NoExpiration, 0}, KeyListsOver(TwoKeys))
    \/ Reads(TwoKeys, KeyListsOver(TwoKeys))
    \/ \E snap \in SnapshotsOver(TwoKeys) : ReadFromFile(snap)

Spec == InitWith({NoMaxSize, 1}) /\ [][Next]_vars

\* SpecCore: one caller, the operations on the index and the list, on three
\* keys at one instant (an update with a negative time-to-live gives the
\* expired entries).
NextCore ==
    \/ Writes(Keys, Values, {NoExpiration, -2}, KeyListsOver(Keys))
    \/ Reads(Keys, KeyListsOver(Keys))

SpecCore == InitWith({NoMaxSize, 2}) /\ [][NextCore]_vars

\* SpecTTL: one caller, the clock running, every time-to-live.
NextTTL ==
    \/ Tick
    \/ Writes(TwoKeys, {"x"}, TTLs, {<<"A", "B">>})
    \/ Reads(TwoKeys, {<<"A", "B">>})
    \/ \E k \in TwoKeys : TTL(k)

SpecTTL == InitWith({NoMaxSize, 1}) /\ [][NextTTL]_vars

\* SpecRestore: one caller, a restore among sets, gets and deletes on three
\* keys, the store holding at most one or two of them.
NextRestore ==
    \/ \E k \in Keys : Set(k, "x")
    \/ \E k \in Keys : Get(k)
    \/ \E k \in Keys : Delete(k)
    \/ \E snap \in SnapshotsOver(TwoKeys) : ReadFromFile(snap)

SpecRestore == InitWith({1, 2}) /\ [][NextRestore]_vars

\* SpecSaved: one caller, the clock running; the store is saved and read
\* back into a new cache.
NextSaved ==
    \/ Tick
    \/ \E k \in Keys, v \in Values : Set(k, v)
    \/ \E k \in Keys : SetWithTTL(k, "x", 1)
    \/ \E k \in Keys : Get(k)
    \/ \E k \in Keys : Delete(k)
    \/ SaveAndRestore

SpecSaved == InitWith({NoMaxSize, 2}) /\ [][NextSaved]_vars

\* SpecOrder: one caller, every insert, update and read at an instant of
\* its own.
NextOrder ==
    \/ Advance
    \/ \E k \in TwoKeys : AtNewInstant(Set(k, "x"))
    \/ \E k \in TwoKeys : AtNewInstant(Get(k))

SpecOrder == InitWith({NoMaxSize, 2}) /\ [][NextOrder]_vars

\* SpecShrink: one caller; a file of up to three entries is read into the
\* empty store, which holds at most one or two, and is used from there.
IsEmpty(S) == Count(S) = 0 /\ S.head = Nil /\ S.tail = Nil
NextShrink ==
    \/ \E snap \in DatedSnapshots : IsEmpty(St) /\ ReadFromFile(snap)
    \/ \E k \in Keys : Set(k, "y")
    \/ \E k \in Keys : Get(k)
    \/ \E k \in Keys : Delete(k)

SpecShrink == InitWith({1, 2}) /\ [][NextShrink]_vars

\* SpecFailed: one caller; the restore succeeds, finds no file, or finds a
\* file it cannot decode to the end.
NextFailed ==
    \/ \E k \in TwoKeys : Set(k, "y")
    \/ \E k \in TwoKeys : Get(k)
    \/ \E k \in TwoKeys : Delete(k)
    \/ \E snap \in SnapshotsOver(TwoKeys) : ReadFromFile(snap)
    \/ ReadFromFileMissing
    \/ \E part \in SnapshotsOver(TwoKeys) : ReadFromFileCorrupt(part)

SpecFailed == InitWith({NoMaxSize, 2}) /\ [][NextFailed]_vars

\* SpecSave: a SaveToFile in its steps beside a Get in its steps and the
\* sets, deletes and expires of other callers.
NextSave ==
    \/ SaveBegin
    \/ \E k \in TwoKeys : SaveEncode(k)
    \/ SaveEnd
    \/ \E k \in TwoKeys : GetLookup(k)
    \/ GetCheck
    \/ GetRelink
    \/ \E k \in TwoKeys : Set(k, "x")
    \/ \E k \in TwoKeys : Delete(k)
    \/ \E k \in TwoKeys : Expire(k, 1)

SpecSave == InitWith({NoMaxSize, 1}) /\ [][NextSave]_vars

\* SpecUnbounded: one caller, the sets, reads, deletes and the restore, on a
\* cache made with a maximum size of zero or less.
NonPositive == -2..0
NextUnbounded ==
    \/ \E k \in Keys : Set(k, "x")
    \/ \E k \in TwoKeys : Get(k)
    \/ \E k \in TwoKeys : Delete(k)
    \/ Clear
    \/ \E snap \in SnapshotsOver(TwoKeys) : ReadFromFile(snap)

SpecUnbounded == InitWith({WithMaxSize(m) : m \in NonPositive}) /\ [][NextUnbounded]_vars

\* SpecConc: a Get in its three steps beside the calls of other callers.
NextConc ==
    \/ \E k \in TwoKeys : GetLookup(k)
    \/ GetCheck
    \/ GetRelink
    \/ Writes(TwoKeys, {"x"}, {NoExpiration, 0}, KeyListsOver(TwoKeys))

SpecConc == InitWith({NoMaxSize, 1}) /\ [][NextConc]_vars

\* ---------------------------------------------------------- list walking
\* The pointers met from `from` along `link` ("previous" or "next"), up to
\* the first null pointer or, in a cycle, up to `fuel` steps.
RECURSIVE Walk(_, _, _, _)
Walk(m, from, link, fuel) ==
    IF from = Nil \/ fuel = 0 THEN <<>>
    ELSE <<from>> \o Walk(m, IF link = "previous" THEN m[from].previous ELSE m[from].next,
                          link, fuel - 1)

FromHead(S) == Walk(S.mem, S.head, "previous", Cardinality(Addrs) + 1)
FromTail(S) == Walk(S.mem, S.tail, "next", Cardinality(Addrs) + 1)
SeqSet(seq) == {seq[i] : i \in 1..Len(seq)}
Reverse(seq) == [i \in 1..Len(seq) |-> seq[Len(seq) + 1 - i]]
\* The keys of the list, from the tail (the first to be evicted) to the head.
OrderOf(S) == [i \in 1..Len(FromTail(S)) |-> S.mem[FromTail(S)[i]].Key]

\* The index and the list agree.
ListMatchesIndex(S) ==
    /\ Len(FromHead(S)) <= Cardinality(Addrs)
    /\ Len(FromHead(S)) = Cardinality(SeqSet(FromHead(S)))
    /\ SeqSet(FromHead(S)) = Range(S.entries)
    /\ \A a \in Range(S.entries) : S.mem[a].Key \in Keys /\ S.entries[S.mem[a].Key] = a
    /\ Len(FromHead(S)) = Count(S)
    /\ IF FromHead(S) = <<>> THEN S.tail = Nil
       ELSE S.tail = FromHead(S)[Len(FromHead(S))]
    /\ FromTail(S) = Reverse(FromHead(S))

(* C1: in every state reached by sequential calls, the restore included,
   walking from head along the previous links ends at tail without cycling
   and visits exactly the indexed entries, each once. *)
C1_ListMatchesIndex == Running => ListMatchesIndex(St)

\* ------------------------------------------------------------- size bound
\* The keys a call may be given, with the heap able to hold the new entry.
SetCalls(S) ==
    {c \in [key : Keys, value : Values, ttl : TTLs] :
        SetWithTTLOp(S, c.key, c.value, c.ttl, now, MaxSize, Roots).ok}
AfterSet(S, c) == SetWithTTLOp(S, c.key, c.value, c.ttl, now, MaxSize, Roots)

(* C2: with a maximum size M > 0, count() <= M after every completed
   setWithTTL and restore; a set that inserts a new key into a store holding
   M entries evicts exactly one entry, and a set that updates an existing
   key evicts none. *)
C2_SizeBound ==
    (Running /\ MaxSize # NoMaxSize) =>
        /\ Count(St) <= MaxSize
        /\ \A c \in SetCalls(St) :
             LET R == AfterSet(St, c)
             IN  /\ (R.ret.created /\ Count(St) = MaxSize) =>
                        /\ R.ret.evictions = 1
                        /\ Count(R.S) = MaxSize
                        /\ \E x \in Indexed(St) \cup {c.key} :
                              Indexed(R.S) = (Indexed(St) \cup {c.key}) \ {x}
                 /\ (c.key \in Indexed(St)) =>
                        /\ R.ret.evictions = 0
                        /\ Indexed(R.S) = Indexed(St)

\* --------------------------------------------------------- the Get race
(* C3: under LeastRecentlyUsed, when the entry that Get looked up has left
   the index before Get enters its exclusive section, the relink does
   nothing: the entry is not linked back and the list still matches the
   index. *)
C3_StaleRelinkDoesNothing ==
    (Running /\ getter.pc = "relink" /\ getter.entry \notin Range(entries)) =>
        /\ GetRelinkOp(St, getter.entry) = St
        /\ ListMatchesIndex(GetRelinkOp(St, getter.entry))

\* ------------------------------------------------------- eviction order
\* The key that leaves the index when the call c inserts a new key.
Victims(S, c) == (Indexed(S) \cup {c.key}) \ Indexed(AfterSet(S, c).S)
InsertsWhenFull(S) ==
    {c \in SetCalls(S) : c.key \notin Indexed(S) /\ AfterSet(S, c).ret.created
                         /\ MaxSize # NoMaxSize /\ Count(S) = MaxSize}

(* C4: under FirstInFirstOut, Get and GetAll change nothing of the index,
   head, tail or links, so the list stays in the order of the keys' last
   insertion or update, and an insert into a full store evicts the key
   whose last insertion or update is the oldest, whatever was read. *)
C4_FifoReadsKeepOrder ==
    (Running /\ EvictionPolicy = FirstInFirstOut) =>
        /\ \A k \in Keys : GetOp(St, k, now, EvictionPolicy).S = St
        /\ \A ks \in KeyListsOver(Keys) :
             GetAllOp(St, ks, now, EvictionPolicy, NoneAsked).S = St
        /\ OrderOf(St) = recency
        /\ \A c \in InsertsWhenFull(St) : Victims(St, c) = {recency[1]}

\* A Get under FirstInFirstOut found the oldest key of a full store of two.
C4_Witness ==
    /\ EvictionPolicy = FirstInFirstOut
    /\ last.op = "Get" /\ last.ret.found
    /\ MaxSize = 2 /\ Count(St) = 2
    /\ recency[1] = last.key
    /\ InsertsWhenFull(St) # {}

(* C5: under LeastRecentlyUsed, a Get that finds a key makes its entry the
   head and keeps the order of the others, so the list stays in the order of
   the keys' last insertion, update or successful read, and an insert into a
   full store evicts the least recently used key. *)
C5_LruGetMovesToHead ==
    (Running /\ EvictionPolicy = LeastRecentlyUsed) =>
        /\ \A k \in Keys :
             LET G == GetOp(St, k, now, EvictionPolicy)
             IN  G.ret.found =>
                   /\ ~G.S.panic
                   /\ G.S.head = entries[k]
                   /\ G.S.entries = entries
                   /\ OrderOf(G.S) = Touch(OrderOf(St), k)
                   /\ ListMatchesIndex(G.S)
        /\ OrderOf(St) = recency
        /\ \A c \in InsertsWhenFull(St) : Victims(St, c) = {recency[1]}

\* A Get under LeastRecentlyUsed found a key of a full store of two and
\* made it the head: the other key is now the one to be evicted.
C5_Witness ==
    /\ EvictionPolicy = LeastRecentlyUsed
    /\ last.op = "Get" /\ last.ret.found
    /\ MaxSize = 2 /\ Count(St) = 2
    /\ head = entries[last.key]
    /\ recency[1] # last.key
    /\ InsertsWhenFull(St) # {}

\* ----------------------------------------------------------------- update
\* What a set of an indexed key does, but for what a following Get returns.
UpdateRewrites(c, R) ==
    LET e == entries[c.key]
    IN  /\ R.ok /\ ~R.S.panic
        /\ R.S.entries = entries
        /\ R.S.mem[e].Value = c.value
        /\ R.S.mem[e].Expiration =
              (IF c.ttl = NoExpiration THEN NoExpiration ELSE now + c.ttl)
        /\ R.S.head = e
        /\ OrderOf(R.S) = Touch(OrderOf(St), c.key)
        /\ Count(R.S) = Count(St)
        /\ ListMatchesIndex(R.S)
Updates == {c \in [key : Indexed(St), value : Values, ttl : TTLs] : TRUE}
Found(v) == [found |-> TRUE, value |-> v]
NotFound == [found |-> FALSE, value |-> NilValue]

(* C6 as stated: a set of an indexed key rewrites its value and expiration,
   makes it the head, keeps the order of the others and the count, and a
   following Get returns the new value. *)
C6_UpdateThenGetReturnsValue ==
    Running => \A c \in Updates :
        LET R == AfterSet(St, c)
        IN  /\ UpdateRewrites(c, R)
            /\ GetOp(R.S, c.key, now, EvictionPolicy).ret = Found(c.value)

(* C6 as amended: a set of an indexed key rewrites its value and expiration,
   makes it the head, keeps the order of the others and the count; a
   following Get returns the new value when the new expiration lies ahead
   (never, or a positive time-to-live), and not-found when the time-to-live
   given is zero or negative. *)
C6_UpdateRewritesAndMovesToHead ==
    Running => \A c \in Updates :
        LET R == AfterSet(St, c)
        IN  /\ UpdateRewrites(c, R)
            /\ GetOp(R.S, c.key, now, EvictionPolicy).ret =
                  (IF c.ttl = NoExpiration \/ c.ttl > 0 THEN Found(c.value) ELSE NotFound)

\* A set has updated a key that was not the head, in a store of three.
C6_Witness ==
    /\ last.op = "SetWithTTL" /\ ~last.ret.created /\ ~last.ret.skipped
    /\ Count(St) = 3
    /\ head = entries[last.key]
    /\ mem[head].Value = "y"
    /\ mem[mem[head].previous].Value = "x"

\* -------------------------------------------------------- lazy expiration
\* The key is indexed and its expiration has passed.
ExpiredIndexed(k) ==
    /\ entries[k] # Nil
    /\ mem[entries[k]].Expiration # NoExpiration
    /\ now >= mem[entries[k]].Expiration
Removers == {"SetWithTTL", "Delete", "DeleteAll", "Clear", "ReadFromFile"}

(* C7: a Get of an absent key or of an indexed key whose expiration has
   passed returns not-found and changes nothing, under either policy; the
   expired entry stays indexed, linked and counted (an insert into a store
   it fills still evicts) until a set, a delete, an eviction, a clear or a
   restore takes it away. *)
C7_LazyExpiration ==
    /\ [](Running =>
            /\ \A k \in Keys : (entries[k] = Nil \/ ExpiredIndexed(k)) =>
                 GetOp(St, k, now, EvictionPolicy) = [S |-> St, ret |-> NotFound]
            /\ (\E k \in Keys : ExpiredIndexed(k)) =>
                 \A c \in InsertsWhenFull(St) : AfterSet(St, c).ret.evictions = 1)
    /\ [][\A k \in Keys :
            (Running /\ ExpiredIndexed(k) /\ ~ExpiredIndexed(k)')
                => last'.op \in Removers]_vars

\* A Get has just reported not-found for a key that is indexed and expired,
\* in a store that this entry alone fills.
C7_Witness ==
    /\ last.op = "Get" /\ ~last.ret.found
    /\ ExpiredIndexed(last.key)
    /\ MaxSize = 1 /\ Count(St) = 1
    /\ head = entries[last.key]

\* ------------------------------------------------------------ time to live
MaxGiven == CHOOSE m \in TTLs : \A ttl \in TTLs : ttl <= m

(* C8: TTL returns one of three outcomes: no-such-key when the key is not
   indexed or its entry is expired; no-expiration when the entry never
   expires; otherwise, with no error, expiration - now, which is not
   negative and not above the time-to-live given. *)
C8_TtlOutcomes ==
    Running => \A k \in Keys :
        LET R == TTLOp(St, k, now)
        IN  IF entries[k] = Nil \/ ExpiredIndexed(k)
            THEN R.err = ErrKeyDoesNotExist
            ELSE IF mem[entries[k]].Expiration = NoExpiration
            THEN R.err = ErrKeyHasNoExpiration
            ELSE /\ R.err = NoError
                 /\ R.d = mem[entries[k]].Expiration - now
                 /\ R.d >= 0
                 /\ R.d <= MaxGiven

(* C9: TTL and Get agree on expiry at every instant, the instant
   now = expiration included: whenever an entry with a finite expiration is
   expired, so that Get reports not-found, TTL reports no-such-key and never
   a zero duration without an error. *)
C9_TtlAgreesWithGet ==
    Running => \A k \in Keys :
        ExpiredIndexed(k) =>
            /\ GetOp(St, k, now, EvictionPolicy).ret = NotFound
            /\ TTLOp(St, k, now) = [d |-> 0, err |-> ErrKeyDoesNotExist]

\* ------------------------------------------------------------------ expire
\* The key is indexed and its expiration has not passed.
Live(k) == entries[k] # Nil /\ ~ExpiredIndexed(k)

(* C10: Expire returns true exactly when the key is indexed and not
   expired; then the expiration becomes now + ttl, or never for the "never"
   time-to-live, nothing else changes, and with ttl = 0 the next Get reports
   not-found; when it returns false nothing changes. *)
C10_Expire ==
    Running => \A k \in Keys, ttl \in TTLs :
        LET R == ExpireOp(St, k, ttl, now)
        IN  /\ R.ret = Live(k)
            /\ Live(k) =>
                 /\ R.S = [St EXCEPT !.mem[entries[k]].Expiration =
                             IF ttl = NoExpiration THEN NoExpiration ELSE now + ttl]
                 /\ (ttl = 0 => GetOp(R.S, k, now, EvictionPolicy).ret = NotFound)
            /\ ~Live(k) => R.S = St

\* Expire has just returned true for a time-to-live of 0: the key is still
\* indexed, and expired at once.
C10_Witness ==
    /\ last.op = "Expire" /\ last.ret
    /\ entries[last.key] # Nil
    /\ mem[entries[last.key]].Expiration = now
    /\ GetOp(St, last.key, now, EvictionPolicy).ret = NotFound

\* ------------------------------------------------ negative time-to-live
Negative == {ttl \in TTLs : ttl # NoExpiration /\ ttl < 0}

(* C11: SetWithTTL with a negative time-to-live other than "never" leaves
   the whole store unchanged when the key is not indexed, and proceeds when
   it is: the value is rewritten, the entry becomes the head and is then
   expired (Get reports not-found) yet still indexed and counted.  A
   time-to-live of 0 on a key that is not indexed creates an entry. *)
C11_TtlSignAsymmetry ==
    Running => \A k \in Keys, v \in Values :
        /\ \A ttl \in Negative :
             LET R == SetWithTTLOp(St, k, v, ttl, now, MaxSize, Roots)
             IN  IF entries[k] = Nil
                 THEN R.S = St /\ R.ret.evictions = 0 /\ ~R.ret.created
                 ELSE /\ R.S.entries = entries
                      /\ Count(R.S) = Count(St)
                      /\ R.S.mem[entries[k]].Value = v
                      /\ R.S.mem[entries[k]].Expiration = now + ttl
                      /\ R.S.head = entries[k]
                      /\ GetOp(R.S, k, now, EvictionPolicy).ret = NotFound
        /\ entries[k] = Nil =>
             LET R == SetWithTTLOp(St, k, v, 0, now, MaxSize, Roots)
             IN  R.ok =>
                   /\ R.ret.created
                   /\ k \in Indexed(R.S)
                   /\ R.S.mem[R.S.entries[k]].Value = v
                   /\ R.S.mem[R.S.entries[k]].Expiration = now

\* SetWithTTL has just updated an indexed key with a negative time-to-live:
\* the entry is the head, indexed, and expired.
C11_Witness ==
    /\ last.op = "SetWithTTL" /\ ~last.ret.created /\ ~last.ret.skipped
    /\ entries[last.key] # Nil
    /\ head = entries[last.key]
    /\ mem[head].Expiration # NoExpiration
    /\ mem[head].Expiration < now
    /\ GetOp(St, last.key, now, EvictionPolicy).ret = NotFound

\* ------------------------------------------------------------------ delete
\* The store T is the store S less the keys K: they are gone from the index
\* and the list, the other entries keep their fields and their order.
Removed(S, T, K) ==
    /\ ~T.panic
    /\ Indexed(T) = Indexed(S) \ K
    /\ \A k \in Indexed(T) :
         /\ T.entries[k] = S.entries[k]
         /\ T.mem[T.entries[k]].Value = S.mem[S.entries[k]].Value
         /\ T.mem[T.entries[k]].Expiration = S.mem[S.entries[k]].Expiration
    /\ OrderOf(T) = SelectSeq(OrderOf(S), LAMBDA x : x \notin K)
    /\ ListMatchesIndex(T)

(* C12: Delete returns true exactly when the key is indexed, expired or
   not, and then removes it from the index and the list, the others keeping
   their order and head and tail repaired; otherwise it returns false and
   changes nothing.  DeleteAll returns the number of distinct indexed keys
   among its arguments and removes exactly those, as deleting each would. *)
C12_Delete ==
    Running =>
        /\ \A k \in Keys :
             LET D == DeleteOp(St, k)
             IN  /\ D.ret = (k \in Indexed(St))
                 /\ IF k \in Indexed(St) THEN Removed(St, D.S, {k}) ELSE D.S = St
        /\ \A ks \in KeyListsOver(Keys) :
             LET D == DeleteAllOp(St, ks, 0)
             IN  /\ D.ret = Cardinality(SeqSet(ks) \cap Indexed(St))
                 /\ Removed(St, D.S, SeqSet(ks))
                 /\ SeqSet(ks) \cap Indexed(St) = {} => D.S = St

\* Delete has just removed one key of three: two are left, in their order.
C12_Witness ==
    /\ last.op = "Delete" /\ last.ret
    /\ entries[last.key] = Nil
    /\ Count(St) = 2
    /\ Len(OrderOf(St)) = 2
    /\ head # tail

\* -------------------------------------------------------------- round trip
(* C13: for every reachable store, SaveToFile followed by ReadFromFile into
   a new cache with the same maximum size and policy gives the same count
   and, for every key, the same value and the same expiration, and reports
   no eviction. *)
C13_RoundTripContents ==
    Running => \A L \in Reloads(St, MaxSize) :
        /\ ~L.R.S.panic /\ ~L.R.S.hang
        /\ L.R.ret = [evictions |-> 0, err |-> NoError]
        /\ Count(L.R.S) = Count(St)
        /\ Indexed(L.R.S) = Indexed(St)
        /\ \A k \in Indexed(St) :
             /\ L.R.S.mem[L.R.S.entries[k]].Value = mem[entries[k]].Value
             /\ L.R.S.mem[L.R.S.entries[k]].Expiration = mem[entries[k]].Expiration
        /\ ListMatchesIndex(L.R.S)

\* A store of two entries, one of them with an expiration, has just been
\* saved and read back into a new cache.
C13_Witness ==
    /\ last.op = "ReadFromFile" /\ last.ret.err = NoError
    /\ Count(St) = 2
    /\ \E k \in Indexed(St) : mem[entries[k]].Expiration # NoExpiration
    /\ \E k \in Indexed(St) : mem[entries[k]].Value = "y"

(* C14: for every store reached by inserts, updates and (under
   LeastRecentlyUsed) reads made at distinct instants, SaveToFile followed
   by ReadFromFile into a new cache gives the tail-to-head key order the
   store had when saved. *)
C14_RoundTripOrder ==
    Running => \A L \in Reloads(St, MaxSize) : OrderOf(L.R.S) = OrderOf(St)

\* ------------------------------------------------------ restore with shrink
\* The keys of the file from the oldest timestamp to the newest.
ByTimestamp(snap) ==
    CHOOSE seq \in [1..Cardinality(DOMAIN snap) -> DOMAIN snap] :
        /\ SeqSet(seq) = DOMAIN snap
        /\ \A i, j \in 1..Len(seq) :
             i < j => snap[seq[i]].RelevantTimestamp < snap[seq[j]].RelevantTimestamp
Excess(n, max) == IF n > max THEN n - max ELSE 0

(* C15: reading a file of n entries with distinct timestamps into an empty
   store of maximum size M > 0 reports max(0, n - M) evictions, removes
   exactly the n - M entries with the oldest timestamps, and leaves the
   others linked from the oldest at the tail to the newest at the head. *)
C15_RestoreWithShrink ==
    (Running /\ MaxSize # NoMaxSize /\ IsEmpty(St)) =>
        \A snap \in DatedSnapshots :
            LET D == DecodeOp(St, snap, Roots)
                n == Cardinality(DOMAIN snap)
                x == Excess(n, MaxSize)
            IN  \A seq \in SortedOrders(D) :
                  LET R == ReadFromFileOp(D, snap, seq, MaxSize)
                  IN  /\ ~R.S.panic /\ ~R.S.hang
                      /\ R.ret = [evictions |-> x, err |-> NoError]
                      /\ OrderOf(R.S) = SubSeq(ByTimestamp(snap), x + 1, n)
                      /\ Indexed(R.S) = SeqSet(SubSeq(ByTimestamp(snap), x + 1, n))
                      /\ ListMatchesIndex(R.S)

\* A file of three entries has just been read into the empty store of
\* maximum size 1: two evictions are reported and one entry is left.
C15_Witness ==
    /\ last.op = "ReadFromFile"
    /\ last.ret = [evictions |-> 2, err |-> NoError]
    /\ MaxSize = 1 /\ Count(St) = 1
    /\ head = tail /\ head # Nil

\* ------------------------------------------------------- a failed restore
(* C16: a restore that fails, on opening the file or on decoding it,
   returns the error with zero evictions and leaves the index, the head, the
   tail and every entry as they were before the call. *)
C16_FailedRestoreChangesNothing ==
    [][(restores' # restores /\ last'.op = "ReadFromFile" /\ last'.ret.err # NoError)
          => /\ last'.ret.evictions = 0
             /\ <<entries, head, tail, mem>>' = <<entries, head, tail, mem>>]_vars

(* C17: no path of the restore returns with the exclusive lock held, so
   that the calls after a failed restore can take the lock. *)
C17_RestoreReleasesLock ==
    last.op = "ReadFromFile" => mutex = "free"

\* ------------------------------------------------------------- the snapshot
(* C18: what a save has written, beside the sets, deletes, expires and LRU
   gets of other callers, is what the store held at one instant between the
   beginning and the end of the save. *)
C18_SnapshotIsPointInTime ==
    saver.pc = "done" => saver.file \in saver.seen

\* ------------------------------------------------------------- no crash
(* C19: no call dereferences a nil pointer under any interleaving of the
   callers: evict runs only when the tail has a successor and the relink to
   the head only when the head is not nil, also when another caller's
   clear, delete or eviction runs between the lookup of an LRU get and its
   exclusive section. *)
C19_NoCrash == ~panicked

\* -------------------------------------------------------- no maximum size
(* C20: with a maximum size given as zero or less, no set and no restore
   evicts, the restore reports 0 evictions, and the count is the number of
   distinct keys put in (by a set or a restore) and not deleted: a set adds
   its key, a restore the keys of the file, a delete, deleteAll or clear
   takes its keys away, and the reads change nothing. (What is said of
   the count is said of the calls that return.) *)
C20_NonPositiveMeansUnbounded ==
    (Running /\ \E m \in NonPositive : MaxSize = WithMaxSize(m)) =>
        /\ \A k \in Keys, v \in Values, ttl \in TTLs :
             LET R == SetWithTTLOp(St, k, v, ttl, now, MaxSize, Roots)
             IN  R.ok =>
                   /\ R.ret.evictions = 0
                   /\ ~R.S.panic =>
                        Indexed(R.S) = IF R.ret.skipped THEN Indexed(St)
                                       ELSE Indexed(St) \cup {k}
        /\ \A snap \in SnapshotsOver(TwoKeys) :
             (\A k \in DOMAIN snap : DecodeAddr(St, snap, Roots, k) # Nil) =>
                LET D == DecodeOp(St, snap, Roots)
                IN  \A seq \in SortedOrders(D) :
                      LET R == ReadFromFileOp(D, snap, seq, MaxSize)
                      IN  /\ ~R.S.panic /\ ~R.S.hang
                          /\ R.ret = [evictions |-> 0, err |-> NoError]
                          /\ Indexed(R.S) = Indexed(St) \cup DOMAIN snap
        /\ \A k \in Keys :
             /\ Indexed(DeleteOp(St, k).S) = Indexed(St) \ {k}
             /\ Indexed(GetOp(St, k, now, EvictionPolicy).S) = Indexed(St)
             /\ \A ttl \in TTLs : Indexed(ExpireOp(St, k, ttl, now).S) = Indexed(St)
        /\ \A ks \in KeyListsOver(Keys) :
             /\ Indexed(DeleteAllOp(St, ks, 0).S) = Indexed(St) \ SeqSet(ks)
             /\ Indexed(GetAllOp(St, ks, now, EvictionPolicy, NoneAsked).S) = Indexed(St)
        /\ Count(ClearOp(St)) = 0

\* After a restore, a set has made the third key: the cache made with a
\* negative maximum size holds all three.
C20_Witness ==
    /\ MaxSize = NoMaxSize
    /\ restores > 0
    /\ last.op = "SetWithTTL" /\ last.ret.created /\ last.ret.evictions = 0
    /\ Count(St) = Cardinality(Keys)

\* -------------------------------------------------- expire keeps the order
\* The entry with its expiration put aside.
Timeless(e) == [e EXCEPT !.Expiration = NoExpiration]

(* C21: a call of Expire, successful or not, under either policy, leaves
   the index, the head, the tail, every link and every value as they were;
   only the expiration of the entry of its key may change, and a call that
   returns false changes nothing.  The order of the list, and with it the
   next entry to be evicted, is the same after the call. *)
C21_ExpireKeepsOrder ==
    Running => \A k \in Keys, ttl \in TTLs :
        LET R == ExpireOp(St, k, ttl, now)
        IN  /\ R.S.entries = entries
            /\ R.S.head = head
            /\ R.S.tail = tail
            /\ \A a \in Addrs :
                 /\ Timeless(R.S.mem[a]) = Timeless(mem[a])
                 /\ a # entries[k] => R.S.mem[a] = mem[a]
            /\ ~R.ret => R.S = St
            /\ OrderOf(R.S) = OrderOf(St)

\* Under LeastRecentlyUsed, Expire has just given an expiration to the
\* entry at the tail of three, which is still the tail.
C21_Witness ==
    /\ EvictionPolicy = LeastRecentlyUsed
    /\ last.op = "Expire" /\ last.ret
    /\ Count(St) = Cardinality(Keys)
    /\ entries[last.key] = tail /\ head # tail
    /\ mem[tail].Expiration # NoExpiration

\* -------------------------------------------------------------------- clear
\* The entry is alone in the list of S: head and tail, with no neighbour.
Sole(S, k) ==
    /\ Indexed(S) = {k}
    /\ S.head = S.entries[k] /\ S.tail = S.entries[k]
    /\ S.mem[S.head].previous = Nil /\ S.mem[S.head].next = Nil

(* C22: Clear leaves the count at 0 and head and tail nil, and leaves the
   maximum size and the eviction policy as they were; the store is then as
   that of a new cache with this configuration, and the set that follows
   makes an entry that is alone, head and tail. *)
C22_Clear ==
    [][last'.op = "Clear" =>
         /\ Count(St') = 0 /\ head' = Nil /\ tail' = Nil
         /\ MaxSize' = MaxSize /\ EvictionPolicy' = EvictionPolicy
         /\ St' = Fresh
         /\ \A k \in Keys, v \in Values :
              LET R == SetWithTTLOp(St', k, v, NoExpiration, now', MaxSize', Roots')
              IN  /\ R.ok /\ ~R.S.panic
                  /\ R.ret = [evictions |-> 0, created |-> TRUE, skipped |-> FALSE]
                  /\ Sole(R.S, k)
                  /\ R.S.mem[R.S.head].Value = v]_vars

\* Clear has just run on a cache with a maximum size under LeastRecentlyUsed.
C22_Witness ==
    /\ last.op = "Clear"
    /\ MaxSize # NoMaxSize /\ EvictionPolicy = LeastRecentlyUsed
    /\ Count(St) = 0

\* ------------------------------------------------------------ the eviction
(* C23: evict removes the entry at the tail, expired or not and whatever
   the other entries are, from the index and from the list; the entry that
   was next to the tail becomes the tail, with no previous entry; the head
   and every other entry are as they were; on an empty store evict does
   nothing. *)
C23_EvictRemovesTail ==
    Running =>
        LET E == evict(St)
        IN  /\ Count(St) = 0 => E = St
            /\ Count(St) >= 2 =>
                 /\ ~E.panic
                 /\ Indexed(E) = Indexed(St) \ {mem[tail].Key}
                 /\ Count(E) = Count(St) - 1
                 /\ OrderOf(E) = Tail(OrderOf(St))
                 /\ ListMatchesIndex(E)
                 /\ E.head = head
                 /\ E.tail = mem[tail].next
                 /\ E.mem[E.tail] = [mem[E.tail] EXCEPT !.previous = Nil]
                 /\ \A a \in Addrs \ {E.tail} : E.mem[a] = mem[a]
                 /\ \A k \in Indexed(E) : E.entries[k] = entries[k]

\* A set has just evicted the tail of a full store in which another key,
\* which stays, is expired.
C23_Witness ==
    /\ last.op = "SetWithTTL" /\ last.ret.evictions = 1
    /\ Count(St) = MaxSize
    /\ \E k \in Keys \ {last.key} : ExpiredIndexed(k)

\* ------------------------------------------------ the two ends of the list
(* C24: in every state one caller reaches, the head is nil exactly when
   the index is empty, and so is the tail; the head has no next entry and
   the tail no previous one; and when one entry is indexed it is the head
   and the tail, with both links nil. *)
C24_EndPoints ==
    Running =>
        /\ (head = Nil) <=> (Count(St) = 0)
        /\ (tail = Nil) <=> (Count(St) = 0)
        /\ head # Nil => mem[head].next = Nil
        /\ tail # Nil => mem[tail].previous = Nil
        /\ Count(St) = 1 =>
             /\ head = tail
             /\ head \in Range(entries)
             /\ mem[head].previous = Nil /\ mem[head].next = Nil

\* ------------------------------------------- restore on a populated store
\* The list of S runs from the oldest timestamp at the tail to the newest
\* at the head.
InTimestampOrder(S) ==
    LET o == OrderOf(S)
    IN  \A i, j \in 1..Len(o) :
          i < j => S.mem[S.entries[o[i]]].RelevantTimestamp
                     <= S.mem[S.entries[o[j]]].RelevantTimestamp

(* C25: when ReadFromFile has returned without error, on a store that held
   entries or not, the list is made anew: every indexed entry, read from
   the file or kept, is linked once, in the order of the timestamps from
   the tail to the head; the tail has no previous entry and the head no
   next one, so that no link of the list before the call is left. *)
C25_RestoreRebuildsList ==
    (Running /\ last.op = "ReadFromFile" /\ last.ret.err = NoError) =>
        /\ ListMatchesIndex(St)
        /\ InTimestampOrder(St)
        /\ head # Nil => mem[head].next = Nil
        /\ tail # Nil => mem[tail].previous = Nil

====
